---- MODULE Spec2Model ----
(***************************************************************************)
(* Model of the chat agent: the tool-call resolution engine                *)
(* (src/src/utils.ts processToolCalls), the approval registry              *)
(* (src/src/tools.ts), the prompt selector (src/src/prompts.ts) and the    *)
(* per-conversation orchestrator (src/src/server.ts Chat).                 *)
(*                                                                         *)
(* Strings of the source that are not ASCII are written as ASCII glosses.  *)
(* A message is a record; a message without parts has no "parts" field     *)
(* (parts === undefined in the source).  A message content is a sequence   *)
(* of tokens, so that startsWith / substring / trim are computed.          *)
(***************************************************************************)
EXTENDS Integers, Sequences, FiniteSets, TLC

(***************************************************************************)
(* Bounds of the model.                                                    *)
(***************************************************************************)
\* most tool-invocation / text parts in the last message
MaxParts == 2
\* most messages before the last one in a submitted history
MaxPrefix == 1
\* most text chunks the model streams in one generation
MaxChunks == 1

(***************************************************************************)
(* shared.ts (APPROVAL) is not among the sources; the two sentinels are    *)
(* the two symbolic values the specification names.                        *)
(***************************************************************************)
APPROVAL_YES == "YES"
APPROVAL_NO == "NO"

\* a tool-invocation part in state "call" has no result field
NoResult == "undefined"

(***************************************************************************)
(* tools.ts                                                                *)
(***************************************************************************)
\* tools (tools.ts:168-174): the names of the tool set handed to the model
tools ==
  {"getWeatherInformation", "getLocalTime", "scheduleTask",
   "getScheduledTasks", "cancelScheduledTask"}

\* toolInvocation.args === undefined (the part came without arguments)
UndefinedArgs == [isUndefined |-> TRUE]

\* `The weather in ${city} is sunny` (tools.ts:196)
WeatherText(city) ==
  CASE city = "Paris" -> "The weather in Paris is sunny"
    [] city = "Tokyo" -> "The weather in Tokyo is sunny"
    [] OTHER -> "The weather in undefined is sunny"

\* what an executor call produces: a value, or a rejected promise
Returned(v) == [threw |-> FALSE, value |-> v]
Threw == [threw |-> TRUE, value |-> "TypeError"]

\* executions.getWeatherInformation (tools.ts:192-197): the parameter is
\* destructured, which throws when args is undefined
getWeatherInformation_IgnoresCity(args) ==
  IF args = UndefinedArgs
    THEN Threw
    ELSE Returned(WeatherText("undefined"))

getWeatherInformation(args) ==
  IF args = UndefinedArgs
    THEN Threw
    ELSE Returned(WeatherText(IF "city" \in DOMAIN args
                                THEN args.city ELSE "undefined"))

\* executions (tools.ts:184-198): the keys of the registry
executions == {"getWeatherInformation"}

\* executions[toolName] applied to args; only called for keys of executions
RunExecutor(toolName, args) ==
  CASE toolName = "getWeatherInformation" -> getWeatherInformation(args)
    [] OTHER -> Threw

\* executions[toolName] is a function (utils.ts:109-110)
HasExecuteFunction(toolName) == toolName = "getWeatherInformation"

\* the tools defined with tool({ description, parameters }) and no execute
\* (tools.ts:31-35); the other four carry an execute function
\* (tools.ts:44-51, 62-104, 112-134, 142-160)
toolsWithoutExecute == {"getWeatherInformation"}

\* toolsRequiringConfirmation (app.tsx:49-51), the array of the client
toolsRequiringConfirmation_None == <<>>

toolsRequiringConfirmation == <<"getWeatherInformation">>

(***************************************************************************)
(* prompts.ts                                                              *)
(***************************************************************************)
\* BASE_PROMPTS[language][personality].identity (prompts.ts:23-179)
BaseIdentity(language, personality) ==
  CASE language = "zh" /\ personality = "professional" -> "zh professional AI assistant"
    [] language = "zh" /\ personality = "friendly" -> "zh friendly AI assistant"
    [] language = "zh" /\ personality = "casual" -> "zh casual AI assistant"
    [] language = "zh" /\ personality = "technical" -> "zh technical expert AI assistant"
    [] language = "zh" /\ personality = "creative" -> "zh creative AI assistant"
    [] language = "en" /\ personality = "professional" -> "You are a professional AI assistant"
    [] language = "en" /\ personality = "friendly" -> "You are a friendly AI assistant"
    [] language = "en" /\ personality = "casual" -> "You are a casual and easygoing AI assistant"
    [] language = "en" /\ personality = "technical" -> "You are a technical expert AI assistant"
    [] language = "en" /\ personality = "creative" -> "You are a creative AI assistant"

\* PRESET_CONFIGS (prompts.ts:340-406); a preset without domain has no
\* domain field
PRESET_CONFIGS ==
  [general |->
     [language |-> "zh", personality |-> "friendly",
      features |-> <<"multi-turn dialogue", "practical advice", "friendly chat">>],
   StoneMonkey |->
     [language |-> "zh", personality |-> "creative",
      features |-> <<"Journey to the West role-play", "classical myth style",
                     "interactive plot", "original story">>],
   HarryPotter |->
     [language |-> "zh", personality |-> "creative",
      features |-> <<"Harry Potter role-play", "magic world", "Hogwarts adventure",
                     "interactive plot">>],
   customerService |->
     [language |-> "zh", personality |-> "professional", domain |-> "customer-service",
      features |-> <<"customer problem solving", "service quality", "patient service">>],
   technical |->
     [language |-> "zh", personality |-> "technical", domain |-> "development",
      features |-> <<"code analysis", "technical proposals", "best practice", "debugging">>],
   education |->
     [language |-> "zh", personality |-> "friendly", domain |-> "education",
      features |-> <<"knowledge explanation", "learning methods", "exercise design",
                     "progress tracking">>],
   english |->
     [language |-> "en", personality |-> "professional",
      features |-> <<"English conversation practice", "Grammar assistance",
                     "Writing improvement">>],
   creative |->
     [language |-> "zh", personality |-> "casual",
      features |-> <<"creative writing", "story creation", "brainstorming",
                     "artistic inspiration">>],
   analyst |->
     [language |-> "zh", personality |-> "professional",
      features |-> <<"data analysis", "logical reasoning", "diagnosis",
                     "decision support">>]]

\* Object.keys(PRESET_CONFIGS), in declaration order (server.ts:126)
availablePresets ==
  <<"general", "StoneMonkey", "HarryPotter", "customerService", "technical",
    "education", "english", "creative", "analyst">>

\* f.includes(marker) for the two role-play markers (prompts.ts:268-270),
\* over the feature strings that occur
IncludesXiyouji(f) == f = "Journey to the West role-play"
IncludesHarryPotter(f) ==
  f \in {"Harry Potter role-play",
         "Harry Potter role-play in Journey to the West style"}

\* roleplayFeature.includes(name) for the two shorter names the script is
\* chosen by (prompts.ts:273-276)
IncludesXiyoujiName(f) ==
  f \in {"Journey to the West role-play",
         "Harry Potter role-play in Journey to the West style"}
IncludesHarryPotterName(f) ==
  f \in {"Harry Potter role-play",
         "Harry Potter role-play in Journey to the West style"}

\* features.find(f => ...) (prompts.ts:268-270): index of the first feature
\* carrying a role-play marker, 0 when there is none
FindRoleplay_Last(features) ==
  LET hits == {i \in DOMAIN features :
                 IncludesXiyouji(features[i]) \/ IncludesHarryPotter(features[i])}
  IN IF hits = {} THEN 0 ELSE CHOOSE i \in hits : \A j \in hits : i >= j

FindRoleplay(features) ==
  LET hits == {i \in DOMAIN features :
                 IncludesXiyouji(features[i]) \/ IncludesHarryPotter(features[i])}
  IN IF hits = {} THEN 0 ELSE CHOOSE i \in hits : \A j \in hits : i <= j

\* generateSystemPrompt (prompts.ts:262-335): the role-play script as a
\* whole, or the templated composition, kept as its components
generateSystemPrompt(cfg) ==
  LET features == IF "features" \in DOMAIN cfg THEN cfg.features ELSE <<>>
      r == FindRoleplay(features)
      script == IF r = 0 THEN "none"
                ELSE IF IncludesXiyoujiName(features[r])
                  THEN "ROLEPLAY_PROMPTS.StoneMonkey"
                ELSE IF IncludesHarryPotterName(features[r])
                  THEN "ROLEPLAY_PROMPTS.HarryPotter"
                ELSE "none"
  IN IF script # "none"
       THEN [kind |-> "roleplay", script |-> script]
       ELSE [kind |-> "templated",
             identity |-> BaseIdentity(cfg.language, cfg.personality),
             domain |-> IF "domain" \in DOMAIN cfg /\ cfg.domain # "general"
                          THEN cfg.domain ELSE "none",
             features |-> features,
             taskInstruction |-> cfg.language]

\* PromptManager.resetToPreset (prompts.ts:454-456)
resetToPreset_KeepsDefault(presetName) == PRESET_CONFIGS.general

resetToPreset(presetName) == PRESET_CONFIGS[presetName]

\* PromptManager.getSystemPrompt (prompts.ts:428-430)
getSystemPrompt(cfg) == generateSystemPrompt(cfg)

\* currentPrompt.split('\n')[0] (server.ts:259-260): the templated prompt
\* opens with the identity line, the StoneMonkey script with its heading,
\* the HarryPotter script with an empty line
FirstLine(prompt) ==
  CASE prompt.kind = "templated" -> prompt.identity
    [] prompt.kind = "roleplay" /\ prompt.script = "ROLEPLAY_PROMPTS.StoneMonkey"
         -> "**[role setting]**"
    [] OTHER -> ""

\* Chat.getCurrentModeInfo (server.ts:258-266): lines[0] || default
getCurrentModeInfo_NoDefault(cfg) == FirstLine(getSystemPrompt(cfg))

getCurrentModeInfo(cfg) ==
  LET line == FirstLine(getSystemPrompt(cfg))
  IN IF line = "" THEN "smart assistant" ELSE line

(***************************************************************************)
(* utils.ts: processToolCalls, one part at a time                          *)
(***************************************************************************)
DenialText == "Error: User denied access to tool execution"
NoExecuteText == "Error: No execute function found on tool"

\* utils.ts:85-93: the part is a tool invocation of a tool that has a key in
\* executions and is in state "result"; every other part is returned as is
IsHandled_NoStateCheck(part) ==
  /\ part.type = "tool-invocation"
  /\ part.toolInvocation.toolName \in executions

IsHandled_AnyTool(part) ==
  /\ part.type = "tool-invocation"
  /\ part.toolInvocation.state = "result"

IsHandled(part) ==
  /\ part.type = "tool-invocation"
  /\ part.toolInvocation.toolName \in executions
  /\ part.toolInvocation.state = "result"

\* utils.ts:98-124: what the callback does with the part
\*   "pass"    return part
\*   "execute" await executions[toolName](args, ...)
\*   "noexec"  result = "Error: No execute function found on tool"
\*   "deny"    result = "Error: User denied access to tool execution"
Decision_AnyResultRuns(part) ==
  IF ~IsHandled(part) THEN "pass"
  ELSE IF part.toolInvocation.result = APPROVAL_NO THEN "deny"
  ELSE IF HasExecuteFunction(part.toolInvocation.toolName) THEN "execute"
  ELSE "noexec"

Decision_DenialFallsThrough(part) ==
  IF ~IsHandled(part) THEN "pass"
  ELSE IF part.toolInvocation.result = APPROVAL_YES
    THEN IF HasExecuteFunction(part.toolInvocation.toolName)
           THEN "execute" ELSE "noexec"
  ELSE "pass"

Decision(part) ==
  IF ~IsHandled(part) THEN "pass"
  ELSE IF part.toolInvocation.result = APPROVAL_YES
    THEN IF HasExecuteFunction(part.toolInvocation.toolName)
           THEN "execute" ELSE "noexec"
  ELSE IF part.toolInvocation.result = APPROVAL_NO THEN "deny"
  ELSE "pass"

\* formatDataStreamPart("tool_result", {toolCallId, result}) (utils.ts:127-132)
ToolResultEvent(part, result) ==
  [type |-> "tool_result",
   toolCallId |-> part.toolInvocation.toolCallId,
   result |-> result]

\* { ...part, toolInvocation: { ...toolInvocation, result } } (utils.ts:135-141)
WithResult(part, result) ==
  [part EXCEPT !.toolInvocation = [@ EXCEPT !.result = result]]

\* the result a part gets without awaiting anything (utils.ts:116, 120)
ImmediateResult(part) ==
  IF Decision(part) = "deny" THEN DenialText ELSE NoExecuteText

\* one record of an executor call (utils.ts:111-114)
Invocation(part) ==
  [toolName |-> part.toolInvocation.toolName,
   args |-> part.toolInvocation.args,
   toolCallId |-> part.toolInvocation.toolCallId]

\* the indices 1..n in increasing order
Indices(n) == [i \in 1..n |-> i]

\* parts.map(async ...) up to the first await of each callback, in part
\* order (utils.ts:83-132): the events written synchronously
SyncEvents(parts) ==
  LET hit == SelectSeq(Indices(Len(parts)),
                       LAMBDA i : Decision(parts[i]) \in {"deny", "noexec"})
  IN [k \in DOMAIN hit |->
        ToolResultEvent(parts[hit[k]], ImmediateResult(parts[hit[k]]))]

\* the executor calls started during that pass, in part order
SyncInvocations(parts) ==
  LET hit == SelectSeq(Indices(Len(parts)),
                       LAMBDA i : Decision(parts[i]) = "execute")
  IN [k \in DOMAIN hit |-> Invocation(parts[hit[k]])]

\* the state of each callback after the pass
SyncStatus(parts) ==
  [i \in DOMAIN parts |->
     IF Decision(parts[i]) = "execute" THEN "awaiting" ELSE "returned"]

\* the value of each callback that has returned during the pass
SyncParts(parts) ==
  [i \in DOMAIN parts |->
     IF Decision(parts[i]) \in {"deny", "noexec"}
       THEN WithResult(parts[i], ImmediateResult(parts[i]))
       ELSE parts[i]]

\* [...messages.slice(0, -1), { ...lastMessage, parts: processedParts }]
\* (utils.ts:147)
Assemble_DropsHistory(msgs, processed) ==
  <<[msgs[Len(msgs)] EXCEPT !.parts = processed]>>

Assemble(msgs, processed) ==
  Append(SubSeq(msgs, 1, Len(msgs) - 1),
         [msgs[Len(msgs)] EXCEPT !.parts = processed])

(***************************************************************************)
(* server.ts: command parsing                                              *)
(***************************************************************************)
\* userInput.startsWith('/sys:') (server.ts:118, 290)
StartsWithSys(content) == Len(content) > 0 /\ content[1] = "/sys:"

RECURSIVE TrimLeft(_)
TrimLeft(s) == IF Len(s) > 0 /\ Head(s) = " " THEN TrimLeft(Tail(s)) ELSE s

RECURSIVE TrimRight(_)
TrimRight(s) ==
  IF Len(s) > 0 /\ s[Len(s)] = " " THEN TrimRight(SubSeq(s, 1, Len(s) - 1)) ELSE s

\* command.substring(5).trim() (server.ts:123), as the tokens that are left
PromptName(command) == TrimRight(TrimLeft(Tail(command)))

\* !promptName || promptName === 'help' (server.ts:129)
IsHelp(name) == name = <<>> \/ name = <<"help">>

\* availablePresets.includes(promptName) (server.ts:147)
IsKnownPreset_FirstWord(name) ==
  Len(name) >= 1 /\ \E i \in DOMAIN availablePresets : availablePresets[i] = name[1]

IsKnownPreset(name) ==
  Len(name) = 1 /\ \E i \in DOMAIN availablePresets : availablePresets[i] = name[1]

\* formatDataStreamPart("text", ...) (server.ts:301-303, 366-368)
TextEvent(body) == [type |-> "text", body |-> body]

(***************************************************************************)
(* The messages a client submits                                           *)
(***************************************************************************)
TextPart == [type |-> "text", text |-> "some text"]

ToolPart(toolName, args, state, result) ==
  [type |-> "tool-invocation",
   toolInvocation |-> [toolName |-> toolName, toolCallId |-> 0, args |-> args,
                       state |-> state, result |-> result]]

\* the tool-invocation parts a submitted last message is built from
PartVariants ==
  {ToolPart("getWeatherInformation", [city |-> "Paris"], "call", NoResult),
   ToolPart("getWeatherInformation", [city |-> "Paris"], "call", APPROVAL_YES),
   ToolPart("getWeatherInformation", [city |-> "Paris"], "result", APPROVAL_YES),
   ToolPart("getWeatherInformation", UndefinedArgs, "result", APPROVAL_YES),
   ToolPart("getWeatherInformation", [city |-> "Tokyo"], "result", APPROVAL_NO),
   ToolPart("getWeatherInformation", [city |-> "Paris"], "result",
            "The weather in Paris is sunny"),
   ToolPart("getLocalTime", [location |-> "Paris"], "result", APPROVAL_YES)}

\* call ids are unique per invocation: part i of the message carries id i
WithIds(parts) ==
  [i \in DOMAIN parts |->
     IF parts[i].type = "tool-invocation"
       THEN [parts[i] EXCEPT !.toolInvocation = [@ EXCEPT !.toolCallId = i]]
       ELSE parts[i]]

PartSeqs ==
  UNION {{WithIds(ps) : ps \in [1..n -> PartVariants]} : n \in 0..MaxParts}

\* the contents of user messages, as tokens
UserContents ==
  {<<"hello">>,
   <<"/sys:", "help">>,
   <<"/sys:">>,
   <<"/sys:", " ">>,
   <<"/sys:", "technical">>,
   <<"/sys:", " ", "technical", " ">>,
   <<"/sys:", "bogus">>,
   <<"/sys:", "technical", " ", "help">>,
   <<" ", "/sys:", "help">>}

\* the last message of a submitted history
LastMessages ==
  {[role |-> "user", content |-> c] : c \in UserContents}
  \cup {[role |-> "user", content |-> <<"hello">>, parts |-> <<TextPart>>],
        [role |-> "assistant", content |-> <<"/sys:", "technical">>]}
  \cup {[role |-> "assistant", content |-> <<>>, parts |-> ps] : ps \in PartSeqs}

\* the messages before the last one, by position: an assistant message
\* that carries an approval nobody resolved, then a user message, and so on
EarlierMessage(i) ==
  IF i % 2 = 1
    THEN [role |-> "assistant", content |-> <<>>,
          parts |-> <<ToolPart("getWeatherInformation", [city |-> "Tokyo"],
                               "result", APPROVAL_YES)>>]
    ELSE [role |-> "user", content |-> <<"hello">>]

Prefixes == {[i \in 1..n |-> EarlierMessage(i)] : n \in 0..MaxPrefix}

\* the histories a request can carry, the empty one included
MessageLists == {<<>>} \cup {Append(pre, m) : pre \in Prefixes, m \in LastMessages}

(***************************************************************************)
(* prompts.ts: the prompt managers of the conversations of one isolate     *)
(***************************************************************************)
\* features pushed onto the arrays beyond their declared ones
MaxPush == 1

Conversations == {"a", "b"}

\* the presets the conversations switch between
UsedPresets == {"general", "technical", "StoneMonkey"}

\* The features arrays that exist: the one each entry of PRESET_CONFIGS
\* declares (prompts.ts:340-406), named by its preset, and per conversation
\* the array a caller passed to setPromptConfig, named by the conversation.
InitArrays ==
  [r \in UsedPresets \cup Conversations |->
     IF r \in UsedPresets THEN PRESET_CONFIGS[r].features ELSE <<>>]

\* a config object as it is held: its features field is a reference
Held(cfg, ref) == [cfg EXCEPT !.features = ref]

\* the config object read through the reference
Deref(held, arrs) == [held EXCEPT !.features = arrs[held.features]]

\* new PromptManager(PRESET_CONFIGS.general) (server.ts:58, prompts.ts:414-416):
\* this.config = config, the preset object itself
InitConfigs == [c \in Conversations |-> Held(PRESET_CONFIGS.general, "general")]

\* PromptManager.addFeature (prompts.ts:435-440): push onto the array the
\* config refers to; the arrays after it
addFeature(held, arrs, feature) ==
  [arrs EXCEPT ![held.features] = Append(@, feature)]

\* PromptManager.resetToPreset (prompts.ts:454-456): { ...PRESET_CONFIGS[name] }
\* copies the fields, so features refers to the array of the preset
resetToPresetHeld(presetName) == Held(PRESET_CONFIGS[presetName], presetName)

\* PromptManager.updateConfig (prompts.ts:421-423): { ...this.config, ...newConfig };
\* a features array in newConfig is the caller's own
updateConfig(held, newConfig, own) ==
  LET keys == DOMAIN held \cup DOMAIN newConfig
  IN [k \in keys |->
        IF k = "features"
          THEN IF "features" \in DOMAIN newConfig THEN own ELSE held.features
        ELSE IF k \in DOMAIN newConfig THEN newConfig[k] ELSE held[k]]

\* the feature strings callers add
AddedFeatures ==
  {"haiku", "Harry Potter role-play",
   "Harry Potter role-play in Journey to the West style"}

\* the configurations callers set
NewConfigs ==
  {[language |-> "en", personality |-> "professional"],
   [language |-> "zh", personality |-> "friendly", features |-> <<"haiku">>]}

(***************************************************************************)
(* tools.ts: the scheduling tools and the scheduler they call              *)
(***************************************************************************)
\* ids the scheduler gives out
MaxSchedules == 2

\* length of the history the fired tasks extend
MaxHistory == 2

\* the when argument of scheduleTask, by type (tools.ts:84-91)
Whens ==
  {[type |-> "no-schedule"],
   [type |-> "scheduled", date |-> "2030-01-01"],
   [type |-> "delayed", delayInSeconds |-> "30"],
   [type |-> "cron", cron |-> "0 9 * * *"]}

Descriptions == {"ping"}

\* const input = ... (tools.ts:84-91)
ScheduleInput(when) ==
  CASE when.type = "scheduled" -> when.date
    [] when.type = "delayed" -> when.delayInSeconds
    [] when.type = "cron" -> when.cron

\* agent.schedule(input, callback, payload): the entry the scheduler keeps
ScheduleEntry(id, when, callback, payload) ==
  [id |-> id, type |-> when.type, time |-> ScheduleInput(when),
   callback |-> callback, payload |-> payload]

\* What a call of agent.schedule can do: register the entry, throw, or
\* return a promise that rejects later; the tool does not await it.
ScheduleOutcomes == {"registered", "throws", "rejects"}

\* scheduleTask.execute (tools.ts:65-103): what it returns and the entries
\* afterwards
scheduleTask_NoEarlyReturn(when, description, scheds, id, outcome) ==
  [result |-> [text |-> "Task scheduled for type", type |-> when.type,
               input |-> "undefined"],
   schedules |-> Append(scheds, [id |-> id, type |-> when.type,
                                 time |-> "undefined",
                                 callback |-> "executeTask",
                                 payload |-> description])]

scheduleTask(when, description, scheds, id, outcome) ==
  IF when.type = "no-schedule"
    THEN [result |-> [text |-> "Not a valid schedule input"],
          schedules |-> scheds]
  ELSE IF outcome = "throws"
    THEN [result |-> [text |-> "Error scheduling task: ", error |-> "error"],
          schedules |-> scheds]
  ELSE [result |-> [text |-> "Task scheduled for type", type |-> when.type,
                    input |-> ScheduleInput(when)],
        schedules |-> IF outcome = "registered"
                        THEN Append(scheds,
                               ScheduleEntry(id, when, "executeTask", description))
                        ELSE scheds]

\* getScheduledTasks.execute (tools.ts:115-133)
getScheduledTasks_HidesDescription(scheds) ==
  IF Len(scheds) = 0
    THEN [text |-> "No scheduled tasks found."]
    ELSE [tasks |-> [i \in DOMAIN scheds |-> [scheds[i] EXCEPT !.payload = ""]]]

getScheduledTasks(scheds) ==
  IF Len(scheds) = 0
    THEN [text |-> "No scheduled tasks found."]
    ELSE [tasks |-> scheds]

\* agent.cancelSchedule(id): the entries without the one of that id
cancelSchedule(scheds, id) == SelectSeq(scheds, LAMBDA e : e.id # id)

\* cancelScheduledTask.execute (tools.ts:147-159): the value cancelSchedule
\* resolves to is not looked at; threw tells whether it threw
cancelScheduledTask(taskId, scheds, threw) ==
  IF threw
    THEN [result |-> [text |-> "Error canceling task", taskId |-> taskId,
                      error |-> "error"],
          schedules |-> scheds]
    ELSE [result |-> [text |-> "Task has been successfully canceled.",
                      taskId |-> taskId],
          schedules |-> cancelSchedule(scheds, taskId)]

\* the message executeTask appends (server.ts:388-393)
TaskMessage(description) ==
  [role |-> "user", content |-> <<"Running scheduled task: ", description>>]

(***************************************************************************)
(* State                                                                   *)
(***************************************************************************)
VARIABLES
  messages,        \* this.messages, the persisted history
  config,          \* this.promptManager.config
  pc,              \* position of the turn
  input,           \* the messages argument of processToolCalls
  status,          \* per part of the last message: state of its callback
  processedParts,  \* per part: the value its callback returned
  returned,        \* <<>> or <<the list processToolCalls returned>>
  stream,          \* the events written to dataStream in this turn
  execLog,         \* the executor calls made in this turn
  genCalls,        \* the streamText calls made in this turn
  chunks,          \* text chunks streamed in this turn
  finishCount,     \* calls of onFinish in this turn
  saveFailed,      \* saveMessages threw in this turn
  rerun,           \* this turn's history is the previous turn's output
  finishArgs,      \* the arguments onFinish was called with in this turn
  toolResult,      \* <<>> or <<the last tool call of the model and its return>>
  aborted,         \* options.abortSignal has fired in this turn
  pc2,             \* <<>> or <<where a second call of onChatMessage is>>
  schedules,       \* the entries of the agent's scheduler
  nextId,          \* the id the scheduler gives out next
  configs,         \* per conversation: its promptManager.config
  arrays           \* the features arrays that exist, by reference

vars ==
  <<messages, config, pc, input, status, processedParts, returned, stream,
    execLog, genCalls, chunks, finishCount, saveFailed, rerun, finishArgs,
    toolResult, aborted, pc2, schedules, nextId, configs, arrays>>

\* the scheduler of the agent
timerVars == <<schedules, nextId>>

\* the prompt managers of the conversations of one isolate
promptVars == <<configs, arrays>>

\* what a turn of the chat leaves alone
otherVars == <<pc2, timerVars, promptVars>>

\* new Chat(...) (server.ts:55-59)
Init ==
  /\ messages = <<>>
  /\ config = PRESET_CONFIGS.general
  /\ pc = "idle"
  /\ input = <<>>
  /\ status = <<>>
  /\ processedParts = <<>>
  /\ returned = <<>>
  /\ stream = <<>>
  /\ execLog = <<>>
  /\ genCalls = <<>>
  /\ chunks = 0
  /\ finishCount = 0
  /\ saveFailed = FALSE
  /\ rerun = FALSE
  /\ finishArgs = <<>>
  /\ toolResult = <<>>
  /\ aborted = FALSE
  /\ pc2 = <<>>
  /\ schedules = <<>>
  /\ nextId = 1
  /\ configs = InitConfigs
  /\ arrays = InitArrays

TurnOver == pc \in {"done", "failed"}

\* every callback has left its await; late ones still run after a rejection
NoneAwaiting == \A i \in DOMAIN status : status[i] # "awaiting"

\* the per-turn variables as they are when no turn is running
TurnCleared ==
  /\ input' = <<>>
  /\ status' = <<>>
  /\ processedParts' = <<>>
  /\ returned' = <<>>
  /\ stream' = <<>>
  /\ execLog' = <<>>
  /\ genCalls' = <<>>
  /\ chunks' = 0
  /\ finishCount' = 0
  /\ saveFailed' = FALSE
  /\ finishArgs' = <<>>
  /\ toolResult' = <<>>
  /\ aborted' = FALSE

\* a chat request arrives: its messages become the history and
\* onChatMessage is called (server.ts:281-286)
Receive(msgs) ==
  /\ pc = "idle"
  /\ messages' = msgs
  /\ pc' = "start"
  /\ UNCHANGED <<config, input, status, processedParts, returned, stream,
                 execLog, genCalls, chunks, finishCount, saveFailed, rerun>>
  /\ UNCHANGED <<finishArgs, toolResult, aborted, otherVars>>

\* the client folds the tool results it was sent into its copy of the
\* history and submits that again
Resubmit ==
  /\ TurnOver
  /\ NoneAwaiting
  /\ returned # <<>>
  /\ messages' = returned[1]
  /\ rerun' = TRUE
  /\ pc' = "start"
  /\ TurnCleared
  /\ UNCHANGED <<config, otherVars>>

\* the response of the turn is closed (server.ts:313, 373)
CloseResponse ==
  /\ TurnOver
  /\ NoneAwaiting
  /\ pc' = "idle"
  /\ rerun' = FALSE
  /\ TurnCleared
  /\ UNCHANGED <<messages, config, otherVars>>

(***************************************************************************)
(* server.ts: the command path                                             *)
(***************************************************************************)
Last(msgs) == msgs[Len(msgs)]

\* lastMessage?.role === 'user' && userInput.startsWith('/sys:')
\* (server.ts:286-290)
IsSystemCommand(msgs) ==
  /\ Len(msgs) > 0
  /\ Last(msgs).role = "user"
  /\ StartsWithSys(Last(msgs).content)

\* Chat.handleSystemCommand (server.ts:116-180): the text it returns, whether
\* it cleared the history, and the configuration it leaves; saved tells
\* whether saveMessages([]) returned or threw
handleSystemCommand_SwitchFirst(command, cfg, saved) ==
  LET name == PromptName(command)
  IN IF IsHelp(name)
       THEN [text |-> [kind |-> "help", presets |-> availablePresets],
             cleared |-> FALSE, config |-> cfg, threw |-> FALSE]
     ELSE IF ~IsKnownPreset(name)
       THEN [text |-> [kind |-> "not found", name |-> name,
                       presets |-> availablePresets],
             cleared |-> FALSE, config |-> cfg, threw |-> FALSE]
     ELSE IF saved
       THEN [text |-> [kind |-> "switched", mode |-> name[1],
                       identity |-> getCurrentModeInfo(resetToPreset(name[1]))],
             cleared |-> TRUE, config |-> resetToPreset(name[1]), threw |-> FALSE]
     ELSE [text |-> [kind |-> "switch failed", name |-> name[1]],
           cleared |-> FALSE, config |-> resetToPreset(name[1]), threw |-> TRUE]

handleSystemCommand(command, cfg, saved) ==
  LET name == PromptName(command)
  IN IF IsHelp(name)
       THEN [text |-> [kind |-> "help", presets |-> availablePresets],
             cleared |-> FALSE, config |-> cfg, threw |-> FALSE]
     ELSE IF ~IsKnownPreset(name)
       THEN [text |-> [kind |-> "not found", name |-> name,
                       presets |-> availablePresets],
             cleared |-> FALSE, config |-> cfg, threw |-> FALSE]
     ELSE IF saved
       THEN [text |-> [kind |-> "switched", mode |-> name[1],
                       identity |-> getCurrentModeInfo(resetToPreset(name[1]))],
             cleared |-> TRUE, config |-> resetToPreset(name[1]), threw |-> FALSE]
     ELSE [text |-> [kind |-> "switch failed", name |-> name[1]],
           cleared |-> FALSE, config |-> cfg, threw |-> TRUE]

\* what the command branch passes to onFinish (server.ts:305-311)
CommandFinish ==
  [finishReason |-> "stop",
   usage |-> [promptTokens |-> "0",
              completionTokens |-> "commandResponse.length"]]

\* Chat.onChatMessage, command branch (server.ts:290-315): the response of
\* handleSystemCommand is written as one text event and onFinish is called
SystemCommand ==
  /\ pc = "start"
  /\ IsSystemCommand(messages)
  /\ \E saved \in BOOLEAN :
       LET out == handleSystemCommand(Last(messages).content, config, saved)
       IN /\ messages' = IF out.cleared THEN <<>> ELSE messages
          /\ config' = out.config
          /\ saveFailed' = out.threw
          /\ stream' = Append(stream, TextEvent(out.text))
  /\ finishCount' = finishCount + 1
  /\ finishArgs' = Append(finishArgs, CommandFinish)
  /\ pc' = "done"
  /\ UNCHANGED <<input, status, processedParts, returned, execLog, genCalls,
                 chunks, rerun>>
  /\ UNCHANGED <<toolResult, aborted, otherVars>>

(***************************************************************************)
(* server.ts / utils.ts: resolution                                        *)
(***************************************************************************)
\* Chat.onChatMessage (server.ts:332-341) calls processToolCalls, which runs
\* every callback of parts.map up to its first await (utils.ts:75-132)
StartResolve ==
  /\ pc = "start"
  /\ ~IsSystemCommand(messages)
  /\ input' = messages
  /\ IF messages = <<>>
       THEN \* lastMessage is undefined: reading .parts throws
            /\ pc' = "failed"
            /\ UNCHANGED <<status, processedParts, returned, stream, execLog>>
     ELSE IF "parts" \notin DOMAIN Last(messages)
       THEN \* if (!parts) return messages
            /\ pc' = "generate"
            /\ returned' = <<messages>>
            /\ UNCHANGED <<status, processedParts, stream, execLog>>
     ELSE LET parts == Last(messages).parts
          IN /\ pc' = "awaiting"
             /\ status' = SyncStatus(parts)
             /\ processedParts' = SyncParts(parts)
             /\ stream' = stream \o SyncEvents(parts)
             /\ execLog' = execLog \o SyncInvocations(parts)
             /\ UNCHANGED returned
  /\ UNCHANGED <<finishArgs, toolResult, aborted, otherVars>>
  /\ UNCHANGED <<messages, config, genCalls, chunks, finishCount, saveFailed, rerun>>

\* the executor of part i settles and its callback resumes (utils.ts:111-141)
Settle_ResultAtFront(i) ==
  /\ pc \in {"awaiting", "failed"}
  /\ i \in DOMAIN status
  /\ status[i] = "awaiting"
  /\ LET part == Last(input).parts[i]
         out == RunExecutor(part.toolInvocation.toolName, part.toolInvocation.args)
     IN IF out.threw
          THEN /\ status' = [status EXCEPT ![i] = "rejected"]
               /\ UNCHANGED <<processedParts, stream>>
          ELSE /\ status' = [status EXCEPT ![i] = "returned"]
               /\ processedParts' =
                    [processedParts EXCEPT ![1] = WithResult(part, out.value)]
               /\ stream' = Append(stream, ToolResultEvent(part, out.value))
  /\ UNCHANGED <<finishArgs, toolResult, aborted, otherVars>>
  /\ UNCHANGED <<messages, config, pc, input, returned, execLog, genCalls,
                 chunks, finishCount, saveFailed, rerun>>

Settle(i) ==
  /\ pc \in {"awaiting", "failed"}
  /\ i \in DOMAIN status
  /\ status[i] = "awaiting"
  /\ LET part == Last(input).parts[i]
         out == RunExecutor(part.toolInvocation.toolName, part.toolInvocation.args)
     IN IF out.threw
          THEN /\ status' = [status EXCEPT ![i] = "rejected"]
               /\ UNCHANGED <<processedParts, stream>>
          ELSE /\ status' = [status EXCEPT ![i] = "returned"]
               /\ processedParts' =
                    [processedParts EXCEPT ![i] = WithResult(part, out.value)]
               /\ stream' = Append(stream, ToolResultEvent(part, out.value))
  /\ UNCHANGED <<finishArgs, toolResult, aborted, otherVars>>
  /\ UNCHANGED <<messages, config, pc, input, returned, execLog, genCalls,
                 chunks, finishCount, saveFailed, rerun>>

\* Promise.all resolves: every callback has returned (utils.ts:82, 147)
Join_AtFirstReturn ==
  /\ pc = "awaiting"
  /\ \E i \in DOMAIN status : status[i] = "returned"
  /\ returned' = <<Assemble(input, processedParts)>>
  /\ pc' = "generate"
  /\ UNCHANGED <<finishArgs, toolResult, aborted, otherVars>>
  /\ UNCHANGED <<messages, config, input, status, processedParts, stream,
                 execLog, genCalls, chunks, finishCount, saveFailed, rerun>>

Join ==
  /\ pc = "awaiting"
  /\ \A i \in DOMAIN status : status[i] = "returned"
  /\ returned' = <<Assemble(input, processedParts)>>
  /\ pc' = "generate"
  /\ UNCHANGED <<finishArgs, toolResult, aborted, otherVars>>
  /\ UNCHANGED <<messages, config, input, status, processedParts, stream,
                 execLog, genCalls, chunks, finishCount, saveFailed, rerun>>

\* Promise.all rejects with the first rejection; nothing catches it in
\* processToolCalls or in execute (utils.ts:82, server.ts:333-341)
JoinReject ==
  /\ pc = "awaiting"
  /\ \E i \in DOMAIN status : status[i] = "rejected"
  /\ pc' = "failed"
  /\ UNCHANGED <<finishArgs, toolResult, aborted, otherVars>>
  /\ UNCHANGED <<messages, config, input, status, processedParts, returned,
                 stream, execLog, genCalls, chunks, finishCount, saveFailed, rerun>>

(***************************************************************************)
(* server.ts: generation                                                   *)
(***************************************************************************)
\* maxSteps (server.ts:356)
maxSteps == 5

\* processedMessages.map(msg => ({ role, content })) (server.ts:351-354)
ModelMessages(msgs) ==
  [i \in DOMAIN msgs |-> [role |-> msgs[i].role, content |-> msgs[i].content]]

\* the streamText call (server.ts:348-362)
StreamTextCall(processedMessages, cfg) ==
  [system |-> getSystemPrompt(cfg),
   messages |-> ModelMessages(processedMessages),
   tools |-> tools,
   maxSteps |-> maxSteps]

Generate ==
  /\ pc = "generate"
  /\ genCalls' = Append(genCalls, StreamTextCall(returned[1], config))
  /\ pc' = "streaming"
  /\ UNCHANGED <<finishArgs, toolResult, aborted, otherVars>>
  /\ UNCHANGED <<messages, config, input, status, processedParts, returned,
                 stream, execLog, chunks, finishCount, saveFailed, rerun>>

\* for await (const chunk of stream.textStream) dataStream.write(...)
\* (server.ts:365-369)
StreamChunk ==
  /\ pc = "streaming"
  /\ chunks < MaxChunks
  /\ chunks' = chunks + 1
  /\ stream' = Append(stream, TextEvent([kind |-> "chunk"]))
  /\ UNCHANGED <<finishArgs, toolResult, aborted, otherVars>>
  /\ UNCHANGED <<messages, config, pc, input, status, processedParts, returned,
                 execLog, genCalls, finishCount, saveFailed, rerun>>

\* the results streamText can hand to its onFinish
StreamResults ==
  {[finishReason |-> r,
    usage |-> [promptTokens |-> "prompt", completionTokens |-> "completion"]] :
     r \in {"stop", "length"}}

\* onFinish(result as any) (server.ts:360)
CompletionArgument_NoUsage(result) == [finishReason |-> result.finishReason]

CompletionArgument(result) == result

\* streamText's onFinish calls the completion callback (server.ts:357-361)
Finish ==
  /\ pc = "streaming"
  /\ finishCount' = finishCount + 1
  /\ \E result \in StreamResults :
       finishArgs' = Append(finishArgs, CompletionArgument(result))
  /\ UNCHANGED <<toolResult, aborted, otherVars>>
  /\ pc' = "done"
  /\ UNCHANGED <<messages, config, input, status, processedParts, returned,
                 stream, execLog, genCalls, chunks, saveFailed, rerun>>

\* the model call fails: the iteration of textStream throws out of execute,
\* which has no try/catch and calls streamText once (server.ts:332-371)
GenerationFails_Retries ==
  /\ pc = "streaming"
  /\ pc' = "failed"
  /\ genCalls' = Append(genCalls, genCalls[1])
  /\ UNCHANGED <<finishArgs, toolResult, aborted, otherVars>>
  /\ UNCHANGED <<messages, config, input, status, processedParts, returned,
                 stream, execLog, chunks, finishCount, saveFailed, rerun>>

GenerationFails ==
  /\ pc = "streaming"
  /\ pc' = "failed"
  /\ UNCHANGED <<finishArgs, toolResult, aborted, otherVars>>
  /\ UNCHANGED <<messages, config, input, status, processedParts, returned,
                 stream, execLog, genCalls, chunks, finishCount, saveFailed, rerun>>

Next ==
  \/ \E msgs \in MessageLists : Receive(msgs)
  \/ Resubmit
  \/ CloseResponse
  \/ SystemCommand
  \/ StartResolve
  \/ \E i \in 1..(MaxParts + 1) : Settle(i)
  \/ Join
  \/ JoinReject
  \/ Generate
  \/ StreamChunk
  \/ Finish
  \/ GenerationFails

Spec == Init /\ [][Next]_vars

(***************************************************************************)
(* tools.ts / server.ts: the model calls the scheduling tools while it     *)
(* generates, and the scheduler fires the entries                          *)
(***************************************************************************)
\* the requests of the turns in which tools are called
SchedLists ==
  {msgs \in MessageLists :
     /\ Len(msgs) = 1
     /\ msgs[1].role = "user"
     /\ msgs[1].content \in {<<"hello">>, <<"/sys:", "technical">>}}

\* what the scheduling steps leave alone
turnVars ==
  <<config, pc, input, status, processedParts, returned, stream, execLog,
    genCalls, chunks, finishCount, saveFailed, rerun, finishArgs>>

ToolCall(tool, args, result) == <<[tool |-> tool, args |-> args, result |-> result]>>

\* streamText runs scheduleTask.execute for a tool call of the model
\* (server.ts:355, tools.ts:65-103)
CallScheduleTask(when, description, outcome) ==
  /\ pc = "streaming"
  /\ nextId <= MaxSchedules
  /\ LET out == scheduleTask(when, description, schedules, nextId, outcome)
     IN /\ toolResult' = ToolCall("scheduleTask",
                                  [when |-> when, description |-> description],
                                  out.result)
        /\ schedules' = out.schedules
        /\ nextId' = IF out.schedules = schedules THEN nextId ELSE nextId + 1
  /\ UNCHANGED <<messages, turnVars, aborted, pc2, promptVars>>

\* streamText runs getScheduledTasks.execute (tools.ts:115-133)
CallGetScheduledTasks ==
  /\ pc = "streaming"
  /\ toolResult' = ToolCall("getScheduledTasks", [none |-> TRUE],
                            getScheduledTasks(schedules))
  /\ UNCHANGED <<messages, turnVars, aborted, pc2, timerVars, promptVars>>

\* streamText runs cancelScheduledTask.execute (tools.ts:147-159)
CallCancelScheduledTask(taskId, threw) ==
  /\ pc = "streaming"
  /\ LET out == cancelScheduledTask(taskId, schedules, threw)
     IN /\ toolResult' = ToolCall("cancelScheduledTask", [taskId |-> taskId],
                                  out.result)
        /\ schedules' = out.schedules
  /\ UNCHANGED <<messages, turnVars, aborted, pc2, nextId, promptVars>>

\* Chat.executeTask (server.ts:385-396): saveMessages([...this.messages, m])
executeTask_OnlyTheTask(description, msgs) == <<TaskMessage(description)>>

executeTask(description, msgs) == Append(msgs, TaskMessage(description))

\* the entries after entry i has fired: a cron entry stays
AfterFiring(scheds, i) ==
  IF scheds[i].type = "cron"
    THEN scheds
    ELSE SubSeq(scheds, 1, i - 1) \o SubSeq(scheds, i + 1, Len(scheds))

\* the scheduler fires entry i: it calls the callback the entry names with
\* the payload; nothing in executeTask looks at the turn (server.ts:385-396)
Fire(i) ==
  /\ i \in DOMAIN schedules
  /\ schedules[i].callback = "executeTask"
  /\ Len(messages) < MaxHistory
  /\ messages' = executeTask(schedules[i].payload, messages)
  /\ schedules' = AfterFiring(schedules, i)
  /\ UNCHANGED <<turnVars, toolResult, aborted, pc2, nextId, promptVars>>

NextSched ==
  \/ \E msgs \in SchedLists : Receive(msgs)
  \/ CloseResponse
  \/ SystemCommand
  \/ StartResolve
  \/ Generate
  \/ Finish
  \/ GenerationFails
  \/ \E when \in Whens, description \in Descriptions, outcome \in ScheduleOutcomes :
       CallScheduleTask(when, description, outcome)
  \/ CallGetScheduledTasks
  \/ \E taskId \in 1..(MaxSchedules + 1), threw \in BOOLEAN :
       CallCancelScheduledTask(taskId, threw)
  \/ \E i \in 1..MaxSchedules : Fire(i)

SpecSched == Init /\ [][NextSched]_vars

(***************************************************************************)
(* server.ts: the client goes away, or sends again, while a turn runs      *)
(***************************************************************************)
\* the turn has been started and has not ended
InProgress == pc \in {"start", "awaiting", "generate", "streaming"}

\* the turn is at an await: of the executors (utils.ts:82), of
\* initOpenAIClient (server.ts:344) or of the text stream (server.ts:365)
AtAwait == pc \in {"awaiting", "generate", "streaming"}

\* options.abortSignal fires. onChatMessage names the parameter _options and
\* reads it nowhere; streamText is not given the signal (server.ts:281-284,
\* 348-362)
Abort ==
  /\ InProgress
  /\ ~aborted
  /\ aborted' = TRUE
  /\ UNCHANGED <<messages, turnVars, toolResult, pc2, timerVars, promptVars>>

\* A chat request arrives while the turn is at an await: its messages become
\* the history and onChatMessage is called, which tests nothing before it
\* enters the command branch or createDataStreamResponse (server.ts:281-296,
\* 317-336). Of the second call the position and its writes to this.* are
\* kept.
ReceiveDuringTurn(msgs) ==
  /\ AtAwait
  /\ pc2 = <<>>
  /\ messages' = msgs
  /\ pc2' = IF IsSystemCommand(msgs)
              THEN <<[at |-> "command", content |-> Last(msgs).content]>>
              ELSE <<[at |-> "resolution"]>>
  /\ UNCHANGED <<turnVars, toolResult, aborted, timerVars, promptVars>>

\* the second call runs to its end (server.ts:116-180 for a command)
SecondTurnEnds ==
  /\ pc2 # <<>>
  /\ pc2' = <<>>
  /\ IF pc2[1].at = "command"
       THEN \E saved \in BOOLEAN :
              LET out == handleSystemCommand(pc2[1].content, config, saved)
              IN /\ messages' = IF out.cleared THEN <<>> ELSE messages
                 /\ config' = out.config
       ELSE UNCHANGED <<messages, config>>
  /\ UNCHANGED <<pc, input, status, processedParts, returned, stream, execLog,
                 genCalls, chunks, finishCount, saveFailed, rerun, finishArgs>>
  /\ UNCHANGED <<toolResult, aborted, timerVars, promptVars>>

NextConc ==
  \/ \E msgs \in SchedLists : Receive(msgs)
  \/ CloseResponse
  \/ SystemCommand
  \/ StartResolve
  \/ Generate
  \/ StreamChunk
  \/ Finish
  \/ GenerationFails
  \/ Abort
  \/ \E msgs \in SchedLists : ReceiveDuringTurn(msgs)
  \/ SecondTurnEnds

SpecConc == Init /\ [][NextConc]_vars

(***************************************************************************)
(* server.ts / prompts.ts: two conversations of one isolate change their   *)
(* prompts                                                                 *)
(***************************************************************************)
\* the declared length of the array a reference names
BaseLen(ref) == IF ref \in UsedPresets THEN Len(PRESET_CONFIGS[ref].features) ELSE 1

\* the features pushed so far onto the arrays of refs
RECURSIVE Pushed(_, _)
Pushed(arrs, refs) ==
  IF refs = {} THEN 0
  ELSE LET r == CHOOSE x \in refs : TRUE
           more == Len(arrs[r]) - BaseLen(r)
       IN (IF more > 0 THEN more ELSE 0) + Pushed(arrs, refs \ {r})

chatVars ==
  <<messages, config, pc, input, status, processedParts, returned, stream,
    execLog, genCalls, chunks, finishCount, saveFailed, rerun, finishArgs,
    toolResult, aborted, pc2, timerVars>>

\* Chat.addPromptFeature (server.ts:84-86)
addPromptFeature(c, feature) ==
  /\ Pushed(arrays, DOMAIN arrays) < MaxPush
  /\ arrays' = addFeature(configs[c], arrays, feature)
  /\ UNCHANGED <<configs, chatVars>>

\* Chat.setPromptConfig (server.ts:66-68)
setPromptConfig(c, newConfig) ==
  /\ configs' = [configs EXCEPT ![c] = updateConfig(@, newConfig, c)]
  /\ arrays' = IF "features" \in DOMAIN newConfig
                 THEN [arrays EXCEPT ![c] = newConfig.features]
                 ELSE arrays
  /\ UNCHANGED chatVars

\* Chat.usePromptPreset (server.ts:75-77), which is also what a /sys:
\* command with the name of a preset calls (server.ts:160)
usePromptPreset(c, presetName) ==
  /\ configs' = [configs EXCEPT ![c] = resetToPresetHeld(presetName)]
  /\ UNCHANGED <<arrays, chatVars>>

NextPrompt ==
  \/ \E c \in Conversations, feature \in AddedFeatures : addPromptFeature(c, feature)
  \/ \E c \in Conversations, newConfig \in NewConfigs : setPromptConfig(c, newConfig)
  \/ \E c \in Conversations, presetName \in UsedPresets : usePromptPreset(c, presetName)

SpecPrompt == Init /\ [][NextPrompt]_vars

(***************************************************************************)
(* server.ts: the switch commands, one per preset                          *)
(***************************************************************************)
\* the requests /sys:<name> for the names of PRESET_CONFIGS
PresetLists ==
  {<<[role |-> "user", content |-> <<"/sys:", availablePresets[i]>>]>> :
     i \in DOMAIN availablePresets}

NextPreset ==
  \/ \E msgs \in PresetLists : Receive(msgs)
  \/ SystemCommand
  \/ CloseResponse

SpecPreset == Init /\ [][NextPreset]_vars

(***************************************************************************)
(* Properties                                                              *)
(***************************************************************************)
\* the parts of the last message processToolCalls was given
InputParts ==
  IF input # <<>> /\ "parts" \in DOMAIN Last(input) THEN Last(input).parts ELSE <<>>

\* the parts of the last message processToolCalls returned
ReturnedParts == Last(returned[1]).parts

IsToolPart(p) == p.type = "tool-invocation"

\* the tool_result events written for call id
EventsOf(id) ==
  SelectSeq(stream, LAMBDA e : e.type = "tool_result" /\ e.toolCallId = id)

\* the executor calls made for call id
CallsOf(id) == SelectSeq(execLog, LAMBDA c : c.toolCallId = id)

\* the callbacks of parts.map have run up to their first await
PassDone == DOMAIN status = DOMAIN InputParts /\ InputParts # <<>>

\* a part of the confirmation-required tool in state "result" whose result
\* is the given sentinel
IsSignalled(p, sentinel) ==
  /\ IsToolPart(p)
  /\ p.toolInvocation.toolName = "getWeatherInformation"
  /\ p.toolInvocation.state = "result"
  /\ p.toolInvocation.result = sentinel

\* C1: an executor is only ever called for a part of the last message that
\* is in state "result" with the YES sentinel as its result, and a part in
\* state "call" is returned as it is, without a call and without an event.
C1_ExecutorOnlyOnApproval ==
  /\ \A k \in DOMAIN execLog :
       \E i \in DOMAIN InputParts :
         /\ IsSignalled(InputParts[i], "YES")
         /\ InputParts[i].toolInvocation.toolCallId = execLog[k].toolCallId
         /\ InputParts[i].toolInvocation.toolName = execLog[k].toolName
  /\ PassDone =>
       \A i \in DOMAIN InputParts :
         (IsToolPart(InputParts[i]) /\ InputParts[i].toolInvocation.state = "call") =>
           /\ CallsOf(i) = <<>>
           /\ EventsOf(i) = <<>>
           /\ status[i] = "returned"
           /\ processedParts[i] = InputParts[i]
           /\ returned # <<>> => ReturnedParts[i] = InputParts[i]

\* a turn in which one part was executed and another one, in state "call",
\* was handed back
C1_Witness ==
  /\ returned # <<>>
  /\ execLog # <<>>
  /\ \E i \in DOMAIN InputParts :
       /\ IsToolPart(InputParts[i])
       /\ InputParts[i].toolInvocation.toolName = "getWeatherInformation"
       /\ InputParts[i].toolInvocation.state = "call"

\* the value the weather executor is documented to return for a payload
ExpectedWeather(args) ==
  IF args = [city |-> "Paris"] THEN "The weather in Paris is sunny"
  ELSE IF args = [city |-> "Tokyo"] THEN "The weather in Tokyo is sunny"
  ELSE "none"

\* C2: an approved part (state "result", result YES, registered executor) has
\* its executor called exactly once with the part's own args; when the
\* executor has returned, the part's result is the returned value and exactly
\* one tool_result event with the part's call id and that value was written.
C2_ApprovedPartExecuted ==
  PassDone =>
    \A i \in DOMAIN InputParts :
      IsSignalled(InputParts[i], "YES") =>
        /\ Len(CallsOf(i)) = 1
        /\ CallsOf(i)[1].args = InputParts[i].toolInvocation.args
        /\ CallsOf(i)[1].toolName = "getWeatherInformation"
        /\ Len(EventsOf(i)) <= 1
        /\ status[i] = "returned" =>
             /\ processedParts[i] =
                  WithResult(InputParts[i],
                             ExpectedWeather(InputParts[i].toolInvocation.args))
             /\ EventsOf(i) =
                  <<[type |-> "tool_result", toolCallId |-> i,
                     result |-> ExpectedWeather(InputParts[i].toolInvocation.args)]>>
        /\ returned # <<>> => ReturnedParts[i] = processedParts[i]

\* getWeatherInformation {city: Paris} was approved and resolved
C2_Witness ==
  /\ returned # <<>>
  /\ \E i \in DOMAIN InputParts :
       /\ IsSignalled(InputParts[i], "YES")
       /\ ReturnedParts[i].toolInvocation.result = "The weather in Paris is sunny"
       /\ Len(EventsOf(i)) = 1

\* C3: a denied part (state "result", result NO, registered executor) gets
\* the fixed denial string as its result, exactly one tool_result event with
\* its call id and that string is written, and no executor is called for it.
C3_DeniedPartNotExecuted ==
  PassDone =>
    \A i \in DOMAIN InputParts :
      IsSignalled(InputParts[i], "NO") =>
        /\ CallsOf(i) = <<>>
        /\ status[i] = "returned"
        /\ processedParts[i] =
             WithResult(InputParts[i], "Error: User denied access to tool execution")
        /\ EventsOf(i) =
             <<[type |-> "tool_result", toolCallId |-> i,
                result |-> "Error: User denied access to tool execution"]>>
        /\ returned # <<>> => ReturnedParts[i] = processedParts[i]

\* a denied part was resolved next to an approved one
C3_Witness ==
  /\ returned # <<>>
  /\ execLog # <<>>
  /\ \E i \in DOMAIN InputParts :
       /\ IsSignalled(InputParts[i], "NO")
       /\ ReturnedParts[i].toolInvocation.result =
            "Error: User denied access to tool execution"

\* C4: the list processToolCalls returns has the length of its input, every
\* message but the last is the input message at the same index, and the
\* last one differs from the input's at most in its parts, of which there
\* are as many as before.
C4_OnlyLastMessageChanges ==
  returned # <<>> =>
    /\ Len(returned[1]) = Len(input)
    /\ \A i \in 1..(Len(input) - 1) : returned[1][i] = input[i]
    /\ Last(returned[1]).role = Last(input).role
    /\ Last(returned[1]).content = Last(input).content
    /\ DOMAIN Last(returned[1]) = DOMAIN Last(input)
    /\ "parts" \in DOMAIN Last(input) =>
         Len(ReturnedParts) = Len(Last(input).parts)

\* a history of two messages whose last message was changed by resolution
\* while the earlier one carries an approval that was left alone
C4_Witness ==
  /\ returned # <<>>
  /\ Len(input) = 2
  /\ "parts" \in DOMAIN input[1]
  /\ input[1].parts[1].toolInvocation.result = "YES"
  /\ Last(returned[1]) # Last(input)

\* every tool-invocation part of the last message carries a result that is
\* neither sentinel
AllConcrete(msgs) ==
  /\ msgs # <<>>
  /\ "parts" \in DOMAIN Last(msgs) =>
       \A i \in DOMAIN Last(msgs).parts :
         IsToolPart(Last(msgs).parts[i]) =>
           Last(msgs).parts[i].toolInvocation.result \notin {"YES", "NO"}

\* C5: when every tool-invocation result of the last message is a concrete
\* value, resolution calls no executor, writes no tool_result event, does
\* not fail and returns the list it was given; this also holds when the list
\* is the output of the previous resolution.
C5_ConcreteResultsUntouched ==
  (pc \notin {"idle", "start"} /\ AllConcrete(input)) =>
    /\ execLog = <<>>
    /\ \A k \in DOMAIN stream : stream[k].type # "tool_result"
    /\ \A i \in DOMAIN status : status[i] = "returned"
    /\ pc = "failed" => genCalls # <<>>
    /\ pc \notin {"awaiting", "failed"} => returned # <<>>
    /\ returned # <<>> => returned[1] = input

\* resolution has run a second time, on its own output, which holds a
\* resolved weather result
C5_Witness ==
  /\ rerun
  /\ returned # <<>>
  /\ AllConcrete(input)
  /\ \E i \in DOMAIN InputParts :
       /\ IsToolPart(InputParts[i])
       /\ InputParts[i].toolInvocation.state = "result"
       /\ InputParts[i].toolInvocation.result = "The weather in Paris is sunny"

\* an approved part (state "result", result YES) naming a tool that has no
\* entry in executions
IsApprovedUnregistered(p) ==
  /\ IsToolPart(p)
  /\ p.toolInvocation.toolName # "getWeatherInformation"
  /\ p.toolInvocation.state = "result"
  /\ p.toolInvocation.result = "YES"

C7_ExecutorFailureIsIsolated ==
  (\E i \in DOMAIN status : status[i] = "rejected") =>
    ~(pc = "failed" /\ genCalls = <<>>)

\* the /sys: commands that name a preset, with the preset they name
PresetCommands ==
  {<<<<"/sys:", "technical">>, "technical">>,
   <<<<"/sys:", " ", "technical", " ">>, "technical">>}

\* the step that ends a turn whose last message is the user command cmd
EndsCommand(cmd) ==
  /\ pc = "start"
  /\ pc' # "start"
  /\ messages # <<>>
  /\ Last(messages).role = "user"
  /\ Last(messages).content = cmd

\* C8 (as claimed): a turn whose last message is a user command naming a
\* known preset ends Done with the history empty, the configuration that of
\* the preset, one confirmation text event and no model call.
C8_PresetCommandSwitches ==
  [][\A c \in PresetCommands :
       EndsCommand(c[1]) =>
         /\ pc' = "done"
         /\ messages' = <<>>
         /\ config' = PRESET_CONFIGS[c[2]]
         /\ Len(stream') = 1
         /\ stream'[1].type = "text"
         /\ stream'[1].body.kind = "switched"
         /\ genCalls' = <<>>]_vars

\* C8 (amended): such a turn ends Done with exactly one text event and no
\* model call; when saveMessages([]) returned, the history is empty, the
\* configuration is that of the preset and the text is the confirmation for
\* that preset; when saveMessages([]) threw, history and configuration are
\* as before and the text reports the failed switch.
C8_PresetCommandSwitchesIfSaved ==
  [][\A c \in PresetCommands :
       EndsCommand(c[1]) =>
         /\ pc' = "done"
         /\ genCalls' = <<>>
         /\ Len(stream') = 1
         /\ stream'[1].type = "text"
         /\ IF saveFailed'
              THEN /\ messages' = messages
                   /\ config' = config
                   /\ stream'[1].body.kind = "switch failed"
              ELSE /\ messages' = <<>>
                   /\ config' = PRESET_CONFIGS[c[2]]
                   /\ stream'[1].body.kind = "switched"
                   /\ stream'[1].body.mode = c[2]]_vars

\* /sys:technical was handled and its save went through
C8_Witness ==
  /\ pc = "done"
  /\ messages = <<>>
  /\ ~saveFailed
  /\ config = PRESET_CONFIGS.technical
  /\ config # PRESET_CONFIGS.general
  /\ Len(stream) = 1
  /\ stream[1].body.kind = "switched"
  /\ stream[1].body.mode = "technical"

\* the /sys: commands whose argument is help, empty or no preset name
OtherCommands ==
  {<<"/sys:", "help">>, <<"/sys:">>, <<"/sys:", " ">>, <<"/sys:", "bogus">>,
   <<"/sys:", "technical", " ", "help">>}

\* C9: a user /sys: command whose argument is help, empty or not the name of
\* a preset ends the turn Done with configuration and history unchanged, no
\* model call, and exactly one text event, which lists every preset name.
C9_OtherCommandsChangeNothing ==
  [][\A cmd \in OtherCommands :
       EndsCommand(cmd) =>
         /\ pc' = "done"
         /\ config' = config
         /\ messages' = messages
         /\ genCalls' = <<>>
         /\ Len(stream') = 1
         /\ stream'[1].type = "text"
         /\ "presets" \in DOMAIN stream'[1].body
         /\ \A n \in DOMAIN PRESET_CONFIGS :
              \E k \in DOMAIN stream'[1].body.presets :
                stream'[1].body.presets[k] = n]_vars

\* an unknown preset name was answered while a preset other than the
\* default was active
C9_Witness ==
  /\ pc = "done"
  /\ messages # <<>>
  /\ Last(messages).content = <<"/sys:", "bogus">>
  /\ config = PRESET_CONFIGS.technical
  /\ Len(stream) = 1
  /\ stream[1].body.kind = "not found"

\* C10 (as claimed): the messages handed to the model carry the results that
\* resolution wrote into the tool-invocation parts of the last message.
C10_ModelReceivesToolResults ==
  genCalls # <<>> =>
    \A i \in DOMAIN InputParts :
      processedParts[i] # InputParts[i] =>
        LET m == Last(genCalls[1].messages)
        IN /\ "parts" \in DOMAIN m
           /\ m.parts[i].toolInvocation.result =
                processedParts[i].toolInvocation.result


(***************************************************************************)
(* Completion and failure of a turn                                        *)
(***************************************************************************)
\* the turn is over after a completed generation
GenerationDone == pc = "done" /\ genCalls # <<>>

\* list is history followed by at least one more message
ExtendsBy(list, history) ==
  /\ Len(list) > Len(history)
  /\ SubSeq(list, 1, Len(history)) = history

C12_FinishOncePerTurn == TurnOver => finishCount = 1

C14_TaskFiringSerialized ==
  [][(\E i \in 1..MaxSchedules : Fire(i)) => ~InProgress]_vars

\* C15: no second call of onChatMessage is in command handling or in
\* resolution while the turn before it has not ended.
C15_OneTurnAtATime == InProgress => pc2 = <<>>

\* the system prompt conversation c generates
Observed(c) == getSystemPrompt(Deref(configs[c], arrays))

\* the features the preset definitions hold
PresetDefinitions == [p \in UsedPresets |-> arrays[p]]

\* the step is an operation on the prompt of conversation c
OperationOn(c) ==
  \/ \E feature \in AddedFeatures : addPromptFeature(c, feature)
  \/ \E newConfig \in NewConfigs : setPromptConfig(c, newConfig)
  \/ \E presetName \in UsedPresets : usePromptPreset(c, presetName)

\* C16: an operation on the prompt of one conversation changes neither the
\* system prompt nor the configuration of another conversation, nor the
\* preset definitions.
C16_NoSharedMutableState ==
  [][\A c \in Conversations, d \in Conversations :
       (c # d /\ OperationOn(c)) =>
         /\ Observed(d)' = Observed(d)
         /\ Deref(configs[d], arrays)' = Deref(configs[d], arrays)
         /\ PresetDefinitions' = PresetDefinitions]_vars

\* C17: once the abort signal has fired in a turn, the turn makes no further
\* streamText call and writes no further event to the response.
C17_AbortStopsTurn ==
  [][(aborted /\ aborted') =>
       /\ genCalls' = genCalls
       /\ stream' = stream
       /\ chunks' = chunks]_vars

(***************************************************************************)
(* The scheduling tools                                                    *)
(***************************************************************************)
\* the entries of scheds with the id
WithId(scheds, id) == {i \in DOMAIN scheds : scheds[i].id = id}

\* C18: scheduleTask with a when of type "no-schedule" returns the text
\* "Not a valid schedule input" and leaves the entries of the scheduler and
\* its next id as they were, whatever a call of agent.schedule would do.
C18_NoScheduleRegistersNothing ==
  [][\A description \in Descriptions, outcome \in ScheduleOutcomes :
       CallScheduleTask([type |-> "no-schedule"], description, outcome) =>
         /\ toolResult'[1].result = [text |-> "Not a valid schedule input"]
         /\ schedules' = schedules
         /\ nextId' = nextId]_vars

C18_Witness ==
  /\ toolResult # <<>>
  /\ toolResult[1].tool = "scheduleTask"
  /\ toolResult[1].args.when.type = "no-schedule"
  /\ toolResult[1].result = [text |-> "Not a valid schedule input"]
  /\ schedules # <<>>

DelayedWhen == [type |-> "delayed", delayInSeconds |-> "30"]

C20_UnknownIdReportedNotFound ==
  [][\A taskId \in 1..(MaxSchedules + 1), threw \in BOOLEAN :
       (CallCancelScheduledTask(taskId, threw) /\ WithId(schedules, taskId) = {}) =>
         /\ toolResult'[1].result.text # "Task has been successfully canceled."
         /\ schedules' = schedules]_vars


(***************************************************************************)
(* The fired task                                                          *)
(***************************************************************************)
\* C21: the firing of an entry leaves as history the history it found with
\* exactly one message appended, of role user, whose content is the
\* narration of the description of the entry; the messages before it are
\* the ones that were there, in their order.
C21_TaskAppendsOneMessage ==
  [][\A i \in 1..MaxSchedules :
       Fire(i) =>
         /\ Len(messages') = Len(messages) + 1
         /\ SubSeq(messages', 1, Len(messages)) = messages
         /\ Last(messages').role = "user"
         /\ Last(messages').content =
              <<"Running scheduled task: ", schedules[i].payload>>]_vars

C21_Witness ==
  /\ Len(messages) = 2
  /\ messages[1].content = <<"hello">>
  /\ messages[2] = TaskMessage("ping")


(***************************************************************************)
(* The tool registries                                                     *)
(***************************************************************************)
\* the elements of an array
Elements(array) == {array[i] : i \in DOMAIN array}

\* C22: the tools defined without execute, the keys of executions and the
\* names in toolsRequiringConfirmation are the same set, a subset of the
\* tools handed to the model; and every executor call of a turn is for a
\* tool of that set.
C22_ToolSetsAgree ==
  /\ toolsWithoutExecute = executions
  /\ executions = Elements(toolsRequiringConfirmation)
  /\ toolsWithoutExecute \subseteq tools
  /\ \A t \in tools \ toolsWithoutExecute :
       t \notin executions /\ t \notin Elements(toolsRequiringConfirmation)
  /\ \A k \in DOMAIN execLog :
       /\ execLog[k].toolName \in Elements(toolsRequiringConfirmation)
       /\ execLog[k].toolName \in toolsWithoutExecute
       /\ HasExecuteFunction(execLog[k].toolName)

C22_Witness ==
  /\ execLog # <<>>
  /\ execLog[1].toolName \in Elements(toolsRequiringConfirmation)
  /\ pc = "done"

(***************************************************************************)
(* The system prompt                                                       *)
(***************************************************************************)
\* the features conversation c has
ActiveFeatures(c) == arrays[configs[c].features]

HasXiyoujiMarker(fs) == \E i \in DOMAIN fs : IncludesXiyouji(fs[i])
HasHarryPotterMarker(fs) == \E i \in DOMAIN fs : IncludesHarryPotter(fs[i])

StoneMonkeyScript == [kind |-> "roleplay", script |-> "ROLEPLAY_PROMPTS.StoneMonkey"]
HarryPotterScript == [kind |-> "roleplay", script |-> "ROLEPLAY_PROMPTS.HarryPotter"]

\* C23 as stated: a feature list with the Journey to the West marker gives
\* the StoneMonkey script, one with the Harry Potter marker gives the
\* HarryPotter script, whatever else the list holds; a list without marker
\* gives the templated composition.
C23_ScriptOfEveryMarker ==
  \A c \in Conversations :
    LET fs == ActiveFeatures(c)
    IN /\ HasXiyoujiMarker(fs) => Observed(c) = StoneMonkeyScript
       /\ HasHarryPotterMarker(fs) => Observed(c) = HarryPotterScript
       /\ (~HasXiyoujiMarker(fs) /\ ~HasHarryPotterMarker(fs)) =>
            Observed(c).kind = "templated"

\* C23: when a feature of the list carries a marker, the prompt is one of
\* the two scripts, chosen by the first such feature in list order (the
\* StoneMonkey script when that feature contains the name of Journey to the
\* West, the HarryPotter script otherwise), and is the same for every
\* language, personality and domain; when no feature carries a marker, the
\* prompt is the templated composition of the configuration.
C23_ScriptOfFirstMarker ==
  \A c \in Conversations :
    LET fs == ActiveFeatures(c)
        cfg == Deref(configs[c], arrays)
        marked == {i \in DOMAIN fs :
                     IncludesXiyouji(fs[i]) \/ IncludesHarryPotter(fs[i])}
    IN IF marked # {}
         THEN LET first == CHOOSE i \in marked : \A j \in marked : i <= j
              IN /\ Observed(c) = IF IncludesXiyoujiName(fs[first])
                                    THEN StoneMonkeyScript
                                    ELSE HarryPotterScript
                 /\ Observed(c) =
                      getSystemPrompt([language |-> "en",
                                       personality |-> "technical",
                                       domain |-> "education",
                                       features |-> fs])
         ELSE /\ Observed(c).kind = "templated"
              /\ Observed(c).identity = BaseIdentity(cfg.language, cfg.personality)
              /\ Observed(c).features = fs

C23_Witness ==
  \E c \in Conversations :
    /\ configs[c].language = "en"
    /\ HasXiyoujiMarker(ActiveFeatures(c))
    /\ HasHarryPotterMarker(ActiveFeatures(c))
    /\ Observed(c) = StoneMonkeyScript


(***************************************************************************)
(* The identity a switch reports                                           *)
(***************************************************************************)
\* the identity line of the language and personality of preset p
IdentityOf(p) == BaseIdentity(PRESET_CONFIGS[p].language, PRESET_CONFIGS[p].personality)

\* the step ends the command /sys:p and the history was cleared
Switches(p) == EndsCommand(<<"/sys:", p>>) /\ ~saveFailed'

\* the presets whose features carry a role-play marker
RoleplayPresets ==
  {p \in DOMAIN PRESET_CONFIGS : FindRoleplay(PRESET_CONFIGS[p].features) # 0}

\* C24 as stated: after the switch to any preset, the first line of the
\* system prompt, and the identity the confirmation reports, is the identity
\* line of the language and personality of that preset.
C24_FirstLineIsIdentity ==
  [][\A p \in DOMAIN PRESET_CONFIGS :
       Switches(p) =>
         /\ FirstLine(getSystemPrompt(config')) = IdentityOf(p)
         /\ stream'[1].body.identity = IdentityOf(p)]_vars

\* C24: after the switch to a preset without role-play marker, the first
\* line of the system prompt, and the identity the confirmation reports, is
\* the identity line of the language and personality of that preset; after
\* the switch to StoneMonkey both are the heading the script opens with;
\* after the switch to HarryPotter the first line is empty and the
\* confirmation reports the default name.
C24_FirstLineOfPreset ==
  [][\A p \in DOMAIN PRESET_CONFIGS :
       Switches(p) =>
         /\ config' = PRESET_CONFIGS[p]
         /\ stream'[1].body.kind = "switched"
         /\ stream'[1].body.mode = p
         /\ IF p \notin RoleplayPresets
              THEN /\ FirstLine(getSystemPrompt(config')) = IdentityOf(p)
                   /\ stream'[1].body.identity = IdentityOf(p)
            ELSE IF p = "StoneMonkey"
              THEN /\ FirstLine(getSystemPrompt(config')) = "**[role setting]**"
                   /\ stream'[1].body.identity = "**[role setting]**"
            ELSE /\ p = "HarryPotter"
                 /\ FirstLine(getSystemPrompt(config')) = ""
                 /\ stream'[1].body.identity = "smart assistant"]_vars

C24_Witness ==
  /\ pc = "done"
  /\ ~saveFailed
  /\ config = PRESET_CONFIGS.english
  /\ Len(stream) = 1
  /\ stream[1].body.kind = "switched"
  /\ stream[1].body.identity = "You are a professional AI assistant"

(***************************************************************************)
(* The preset a reset leaves                                               *)
(***************************************************************************)
\* C25: a resetToPreset(p) leaves a configuration whose language,
\* personality, domain and features are those PRESET_CONFIGS declares for p,
\* whatever was added, set or reset before.
C25_ResetRestoresDeclaredPreset ==
  [][\A c \in Conversations, p \in UsedPresets :
       usePromptPreset(c, p) =>
         Deref(configs'[c], arrays') = PRESET_CONFIGS[p]]_vars


(***************************************************************************)
(* Order and number of the resolutions                                     *)
(***************************************************************************)
\* processToolCalls has returned the list of a last message with parts
Resolved == returned # <<>> /\ InputParts # <<>>

ToolResultEvents == SelectSeq(stream, LAMBDA e : e.type = "tool_result")

\* the parts the callback gives a new result: a registered executor, state
\* "result" and a sentinel as result
Sentinelled ==
  {i \in DOMAIN InputParts :
     /\ IsToolPart(InputParts[i])
     /\ InputParts[i].toolInvocation.toolName \in executions
     /\ InputParts[i].toolInvocation.state = "result"
     /\ InputParts[i].toolInvocation.result \in {APPROVAL_YES, APPROVAL_NO}}

\* C26: whatever the order in which the executors settled, the returned last
\* message has as many parts as the submitted one, part i being input part i
\* with at most its result replaced; every call id that was resolved has
\* exactly one tool-result event, which carries the result part i was
\* given, and no other call id has any.
C26_PartsKeepTheirOrder ==
  /\ PassDone =>
       \A i \in Sentinelled :
         /\ Len(EventsOf(i)) <= 1
         /\ status[i] = "returned" => Len(EventsOf(i)) = 1
  /\ Resolved =>
    /\ DOMAIN ReturnedParts = DOMAIN InputParts
    /\ \A i \in DOMAIN InputParts :
         IF i \in Sentinelled
           THEN /\ ReturnedParts[i] =
                     WithResult(InputParts[i], ReturnedParts[i].toolInvocation.result)
                /\ ReturnedParts[i].toolInvocation.toolCallId = i
                /\ Len(EventsOf(i)) = 1
                /\ EventsOf(i)[1] =
                     [type |-> "tool_result", toolCallId |-> i,
                      result |-> ReturnedParts[i].toolInvocation.result]
                /\ ReturnedParts[i].toolInvocation.result \notin
                     {APPROVAL_YES, APPROVAL_NO}
           ELSE /\ ReturnedParts[i] = InputParts[i]
                /\ (IsToolPart(InputParts[i]) => EventsOf(i) = <<>>)

\* two executors were started and the second settled first
C26_Witness ==
  /\ Resolved
  /\ Len(execLog) = 2
  /\ Len(stream) >= 2
  /\ stream[1] = [type |-> "tool_result", toolCallId |-> 2,
                  result |-> "The weather in Paris is sunny"]
  /\ stream[2].type = "tool_result"
  /\ stream[2].toolCallId = 1

\* every callback of parts.map has settled
AllSettled ==
  /\ PassDone
  /\ \A i \in DOMAIN status : status[i] # "awaiting"

\* C27: in every run of processToolCalls, once all its callbacks have
\* settled, the tool-result events written are as many as the parts of the
\* last message with a registered executor, state "result" and a sentinel as
\* result; every other part has no tool-result event and, when the list is
\* returned, is returned as it came.
C27_OneEventPerSentinelPart ==
  AllSettled =>
    /\ Len(ToolResultEvents) = Cardinality(Sentinelled)
    /\ \A i \in DOMAIN InputParts \ Sentinelled :
         /\ returned # <<>> => ReturnedParts[i] = InputParts[i]
         /\ \A k \in DOMAIN stream :
              stream[k].type = "tool_result" => stream[k].toolCallId # i

\* C28: in the events of a turn no tool-result event follows a text event,
\* and once streamText has been called every callback of the resolution has
\* returned and processToolCalls has returned its list.
C28_ResolutionBeforeGeneration ==
  /\ \A j \in DOMAIN stream, k \in DOMAIN stream :
       (j < k /\ stream[j].type = "text") => stream[k].type # "tool_result"
  /\ genCalls # <<>> =>
       /\ returned # <<>>
       /\ \A i \in DOMAIN status : status[i] = "returned"
       /\ Len(ToolResultEvents) = Cardinality(Sentinelled)

C28_Witness ==
  /\ genCalls # <<>>
  /\ chunks > 0
  /\ Len(stream) = 3
  /\ stream[1].type = "tool_result"
  /\ stream[2].type = "tool_result"
  /\ stream[3].type = "text"


(***************************************************************************)
(* The order of clearing and switching                                     *)
(***************************************************************************)
\* the step that handles a user command naming a known preset
HandlesPresetCommand ==
  /\ pc = "start"
  /\ pc' # "start"
  /\ IsSystemCommand(messages)
  /\ IsKnownPreset(PromptName(Last(messages).content))

\* C29: the step that handles a command naming a known preset ends the turn
\* Done (nothing escapes); when clearing the history failed, configuration
\* and history are as before and the one text written reports the failure
\* and is no confirmation; in no case is the configuration replaced while
\* the history is left in place.
C29_ClearedBeforeSwitched ==
  [][HandlesPresetCommand =>
       /\ pc' = "done"
       /\ stream' = Append(stream, TextEvent(Last(stream').body))
       /\ saveFailed' =>
            /\ config' = config
            /\ messages' = messages
            /\ Last(stream').body.kind = "switch failed"
       /\ Last(stream').body.kind = "switched" => messages' = <<>>
       /\ (config' # config \/ ~saveFailed') => messages' = <<>>]_vars

\* /sys:technical was handled while saveMessages([]) threw
C29_Witness ==
  /\ pc = "done"
  /\ saveFailed
  /\ messages # <<>>
  /\ Last(messages).content = <<"/sys:", "technical">>
  /\ config = PRESET_CONFIGS.general
  /\ Len(stream) = 1
  /\ stream[1].body.kind = "switch failed"


(***************************************************************************)
(* Failures of the registration                                            *)
(***************************************************************************)
\* C30: a scheduleTask call with a schedulable when whose registration
\* fails, by agent.schedule throwing or by the promise it returned
\* rejecting, returns the "Error scheduling task" text and leaves the
\* entries of the scheduler as they were; the text "Task scheduled" is
\* returned only when the entry was registered.
C30_SuccessOnlyIfRegistered ==
  [][\A when \in Whens, description \in Descriptions,
        outcome \in ScheduleOutcomes :
       (when.type # "no-schedule" /\ CallScheduleTask(when, description, outcome)) =>
         /\ outcome # "registered" =>
              /\ toolResult'[1].result.text = "Error scheduling task: "
              /\ schedules' = schedules
         /\ toolResult'[1].result.text = "Task scheduled for type" =>
              Len(schedules') = Len(schedules) + 1]_vars

====
